---- MODULE Spec2Model ----
(***************************************************************************)
(* Model of src/etl_pipeline.py: the HybridJoin join engine and the        *)
(* MultithreadedLoader batch loader, against the statements of spec.md.    *)
(***************************************************************************)
EXTENDS Integers, Sequences, FiniteSets, TLC

(***************************************************************************)
(* Bounds of the model.                                                    *)
(***************************************************************************)
\* longest dataset handed to a join
MaxRows == 2
\* longest dataset handed to parallel_load
MaxData == 3
\* largest batch_size handed to parallel_load
MaxBatchSize == 2
\* largest max_workers a loader is constructed with
MaxPool == 2
\* parallel_load invocations on one loader
MaxCalls == 2
\* store failures (connect, execute, commit) injected in one run
MaxFaults == 1
\* batches submitted to the pools of one run, over all invocations
MaxBatches == 2

(***************************************************************************)
(* Generic helpers.                                                        *)
(***************************************************************************)
Range(s) == {s[i] : i \in DOMAIN s}

SeqsUpTo(S, n) == UNION {[1..m -> S] : m \in 0..n}

Count(s, x) == Cardinality({i \in DOMAIN s : s[i] = x})

\* two sequences hold the same multiset of elements
SameMultiset(s, t) ==
    /\ Len(s) = Len(t)
    /\ \A x \in Range(s) \cup Range(t) : Count(s, x) = Count(t, x)

Min(a, b) == IF a <= b THEN a ELSE b

(***************************************************************************)
(* Tabular datasets.  A DataFrame is its column names and its rows of      *)
(* values; a row taken out of it (iterrows / to_dict) is an ordered        *)
(* mapping, written as a sequence of <<column, value>> pairs.              *)
(***************************************************************************)
DataFrame(cols, vals) == [columns |-> cols, values |-> vals]

\* len(df)
DfLen(df) == Len(df.values)

\* the i-th row of iterrows(), as row.to_dict()
RowDict(df, i) == [j \in 1..Len(df.columns) |-> <<df.columns[j], df.values[i][j]>>]

DictKeys(d) == {d[j][1] : j \in DOMAIN d}

\* d[col] for a column the mapping has
DictGet(d, col) == d[CHOOSE j \in DOMAIN d : d[j][1] = col][2]

\* {**a, **b}: a's columns in a's order, taking b's value where b has the
\* column, followed by the columns only b has, in b's order
DictMerge(a, b) ==
    [j \in DOMAIN a |-> IF a[j][1] \in DictKeys(b)
                        THEN <<a[j][1], DictGet(b, a[j][1])>>
                        ELSE a[j]]
    \o SelectSeq(b, LAMBDA p : p[1] \notin DictKeys(a))

\* a join returns a dataset (its rows) or raises
Returned(rows) == [raised |-> FALSE, rows |-> rows]
Raised(err) == [raised |-> TRUE, error |-> err]
NotCalled == [raised |-> FALSE, called |-> FALSE]

(***************************************************************************)
(* HybridJoin.hash_join                                                    *)
(***************************************************************************)
\* hash_table[key_value] = [row], dropping the rows already kept for the key
HashInsertOverwrite(hash_table, key_value, row) ==
    IF key_value \notin DOMAIN hash_table
    THEN hash_table @@ (key_value :> <<row>>)
    ELSE [hash_table EXCEPT ![key_value] = <<row>>]

\* lines 121-123: the multi-map keeps every build row of a key, in order
HashInsert(hash_table, key_value, row) ==
    IF key_value \notin DOMAIN hash_table
    THEN hash_table @@ (key_value :> <<row>>)
    ELSE [hash_table EXCEPT ![key_value] = Append(@, row)]

EmptyTable == [kv \in {} |-> <<>>]

\* lines 118-123: the build loop, from row i on
RECURSIVE BuildHashTable(_, _, _, _)
BuildHashTable(build_df, build_key, i, hash_table) ==
    IF i > DfLen(build_df) THEN hash_table
    ELSE LET row == RowDict(build_df, i)
         IN  BuildHashTable(build_df, build_key, i + 1,
                            HashInsert(hash_table, DictGet(row, build_key), row))

\* the combined row always built as when the left dataset is the build side
CombinedIgnoringSwap(swap, probe_row, build_row) == DictMerge(build_row, probe_row)

\* lines 131-134: the left row first, whichever side was the build side
Combined(swap, probe_row, build_row) ==
    IF swap THEN DictMerge(probe_row, build_row)
            ELSE DictMerge(build_row, probe_row)

\* the probe loop emitting, for a probe row, only the first build row of its key
RECURSIVE ProbeRowsFirstMatch(_, _, _, _, _, _)
ProbeRowsFirstMatch(probe_df, probe_key, hash_table, swap, i, result_rows) ==
    IF i > DfLen(probe_df) THEN result_rows
    ELSE LET probe_row == RowDict(probe_df, i)
             key_value == DictGet(probe_row, probe_key)
             matches == IF key_value \in DOMAIN hash_table
                        THEN <<Combined(swap, probe_row, hash_table[key_value][1])>>
                        ELSE <<>>
         IN  ProbeRowsFirstMatch(probe_df, probe_key, hash_table, swap, i + 1,
                                 result_rows \o matches)

\* lines 126-135: the probe loop, from row i on
RECURSIVE ProbeRows(_, _, _, _, _, _)
ProbeRows(probe_df, probe_key, hash_table, swap, i, result_rows) ==
    IF i > DfLen(probe_df) THEN result_rows
    ELSE LET probe_row == RowDict(probe_df, i)
             key_value == DictGet(probe_row, probe_key)
             matches == IF key_value \in DOMAIN hash_table
                        THEN [j \in 1..Len(hash_table[key_value]) |->
                                 Combined(swap, probe_row, hash_table[key_value][j])]
                        ELSE <<>>
         IN  ProbeRows(probe_df, probe_key, hash_table, swap, i + 1,
                       result_rows \o matches)

\* row[key] raises KeyError on the first row of a dataset without the column
KeyMissing(df, key) == DfLen(df) > 0 /\ key \notin Range(df.columns)

hash_join(left_df, right_df, left_key, right_key) ==
    LET swap == ~(DfLen(left_df) <= DfLen(right_df))
        build_df == IF swap THEN right_df ELSE left_df
        probe_df == IF swap THEN left_df ELSE right_df
        build_key == IF swap THEN right_key ELSE left_key
        probe_key == IF swap THEN left_key ELSE right_key
    IN  IF KeyMissing(build_df, build_key) THEN Raised("KeyError")
        ELSE IF KeyMissing(probe_df, probe_key) THEN Raised("KeyError")
        ELSE Returned(ProbeRows(probe_df, probe_key,
                                BuildHashTable(build_df, build_key, 1, EmptyTable),
                                swap, 1, <<>>))

(***************************************************************************)
(* HybridJoin.nested_loop_join                                             *)
(***************************************************************************)
\* a condition_func comparing a key column: lambda l, r: l[key] == r[key]
EqualOnKey(key, left_row, right_row) ==
    IF key \notin DictKeys(left_row) \/ key \notin DictKeys(right_row)
    THEN Raised("KeyError")
    ELSE [raised |-> FALSE, value |-> DictGet(left_row, key) = DictGet(right_row, key)]

\* lines 161-166: the pairs in left-major order, from pair p on (0-based)
RECURSIVE NestedLoop(_, _, _, _, _)
NestedLoop(left_df, right_df, key, p, result_rows) ==
    IF p >= DfLen(left_df) * DfLen(right_df) THEN Returned(result_rows)
    ELSE LET left_row == RowDict(left_df, (p \div DfLen(right_df)) + 1)
             right_row == RowDict(right_df, (p % DfLen(right_df)) + 1)
             c == EqualOnKey(key, left_row, right_row)
         IN  IF c.raised THEN c
             ELSE NestedLoop(left_df, right_df, key, p + 1,
                             IF c.value
                             THEN Append(result_rows, DictMerge(left_row, right_row))
                             ELSE result_rows)

nested_loop_join(left_df, right_df, key) == NestedLoop(left_df, right_df, key, 0, <<>>)

(***************************************************************************)
(* Inputs of the join engine.                                              *)
(***************************************************************************)
KeyVals == {1, 2}
LeftPayloads == {10, 11}
RightPayloads == {11, 12}

LeftColumns == <<"a", "k", "c">>
RightColumns == <<"k", "c", "b">>
LeftColumnsNoKey == <<"a", "c">>
RightColumnsNoKey == <<"c", "b">>

LeftRows == {<<p, k, p>> : k \in KeyVals, p \in LeftPayloads}
RightRows == {<<k, p, p>> : k \in KeyVals, p \in RightPayloads}

\* spec.md, section 8: left keys [1,2,2] joined with right keys [2,3]
ScenarioLeft == DataFrame(LeftColumns, << <<10, 1, 10>>, <<10, 2, 10>>, <<11, 2, 11>> >>)
ScenarioRight == DataFrame(RightColumns, << <<2, 12, 12>>, <<3, 11, 11>> >>)

LeftDatasets ==
    {DataFrame(LeftColumns, v) : v \in SeqsUpTo(LeftRows, MaxRows)}
    \cup {DataFrame(LeftColumnsNoKey, v) : v \in SeqsUpTo({<<p, p>> : p \in LeftPayloads}, MaxRows)}
    \cup {ScenarioLeft}

RightDatasets ==
    {DataFrame(RightColumns, v) : v \in SeqsUpTo(RightRows, MaxRows)}
    \cup {DataFrame(RightColumnsNoKey, v) : v \in SeqsUpTo({<<p, p>> : p \in RightPayloads}, MaxRows)}
    \cup {ScenarioRight}

(***************************************************************************)
(* The relational store and the statements of the loader.                  *)
(* A row of a batch is <<key, value>>: the table's key column (the first   *)
(* column of every dimension table) and its non-key columns.               *)
(***************************************************************************)
DimensionTables == {"Customer_Dim", "Store_Dim", "Supplier_Dim", "Product_Dim", "Date_Dim"}
FactTable == "Sales_Fact"

\* every dimension table given the updating statement
SqlAllUpdating(table_name) ==
    IF table_name = FactTable THEN "insert"
    ELSE IF table_name \in DimensionTables THEN "upsert"
    ELSE "unbound"

\* lines 320-374 and 425-430: the statement chosen by the table name;
\* load_dimension_batch leaves sql unbound for any other name
Sql(table_name) ==
    IF table_name = FactTable THEN "insert"
    ELSE IF table_name \in {"Customer_Dim", "Store_Dim", "Supplier_Dim", "Product_Dim"}
         THEN "upsert"
    ELSE IF table_name = "Date_Dim" THEN "insert_keep_existing"
    ELSE "unbound"

KeyIndex(rows, key) ==
    IF \E i \in DOMAIN rows : rows[i][1] = key
    THEN CHOOSE i \in DOMAIN rows : rows[i][1] = key
    ELSE 0

\* the row appended whether or not its key is in the table
ApplyRowInsertOnly(sql, rows, row) == [rows |-> Append(rows, row), rowcount |-> 1]

\* one row of the statement applied to a table: the table afterwards and
\* the affected-rows count of MySQL (1 inserted, 2 updated, 0 unchanged)
ApplyRow(sql, rows, row) ==
    LET i == KeyIndex(rows, row[1])
    IN  IF sql = "insert" \/ i = 0
        THEN [rows |-> Append(rows, row), rowcount |-> 1]
        ELSE IF sql = "upsert" /\ rows[i] # row
        THEN [rows |-> [rows EXCEPT ![i] = row], rowcount |-> 2]
        ELSE [rows |-> rows, rowcount |-> 0]

\* only the first row of the batch applied
ExecuteManyFirstRowOnly(sql, rows, data_tuples, i, rowcount) ==
    IF data_tuples = <<>> THEN [rows |-> rows, rowcount |-> rowcount]
    ELSE ApplyRow(sql, rows, data_tuples[1])

\* cursor.executemany(sql, data_tuples): every row of the batch, in order
RECURSIVE ExecuteMany(_, _, _, _, _)
ExecuteMany(sql, rows, data_tuples, i, rowcount) ==
    IF i > Len(data_tuples) THEN [rows |-> rows, rowcount |-> rowcount]
    ELSE LET r == ApplyRow(sql, rows, data_tuples[i])
         IN  ExecuteMany(sql, r.rows, data_tuples, i + 1, rowcount + r.rowcount)

(***************************************************************************)
(* MultithreadedLoader                                                     *)
(***************************************************************************)
\* the partitioning keeping the full batches only
PartitionFullOnly(data, batch_size) ==
    [b \in 1..(Len(data) \div batch_size) |->
        SubSeq(data, (b - 1) * batch_size + 1, b * batch_size)]

\* line 471: batches = [data[i:i+batch_size] for i in range(0, len(data), batch_size)]
Partition(data, batch_size) ==
    [b \in 1..((Len(data) + batch_size - 1) \div batch_size) |->
        SubSeq(data, (b - 1) * batch_size + 1, Min(b * batch_size, Len(data)))]

\* what a batch load hands back to its future: a returned LoadResult or an
\* exception
NoOutcome == [kind |-> "none"]

\* lines 386-391, 442-447
SuccessOutcome(thread_id, table_name, rows_affected) ==
    [kind |-> "return",
     result |-> [thread_id |-> thread_id, table |-> table_name,
                 rows_loaded |-> rows_affected, status |-> "success", error |-> "none"]]

\* the failure escaping the load instead of being converted to a LoadResult
FailureRaised(thread_id, table_name, err) == [kind |-> "raise", error |-> err]

\* lines 393-401, 449-457: except Exception -> a LoadResult with status failed
FailureOutcome(thread_id, table_name, err) ==
    [kind |-> "return",
     result |-> [thread_id |-> thread_id, table |-> table_name,
                 rows_loaded |-> 0, status |-> "failed", error |-> err]]

\* only the successful results kept
AppendIfSuccess(results_list, result) ==
    IF result.status = "success" THEN Append(results_list, result) ELSE results_list

\* the collection started afresh with the result
AppendToFresh(results_list, result) == <<result>>

\* line 488: self.results.append(result)
AppendResult(results_list, result) == Append(results_list, result)

\* line 491: sum(r['rows_loaded'] for r in self.results)
RECURSIVE SumRowsLoaded(_)
SumRowsLoaded(results_list) ==
    IF results_list = <<>> THEN 0
    ELSE results_list[1].rows_loaded + SumRowsLoaded(Tail(results_list))

\* line 492: sum(1 for r in self.results if r['status'] == 'failed')
CountFailed(results_list) ==
    Cardinality({i \in DOMAIN results_list : results_list[i].status = "failed"})

(***************************************************************************)
(* DataTransformer.  A source row is a tuple of its columns:               *)
(*   customer     <<Customer_ID, attributes>>                              *)
(*   product      <<Product_ID, Product_Category, price, storeID,          *)
(*                  storeName, supplierID, supplierName>>                  *)
(*   transaction  <<orderID, Customer_ID, Product_ID, quantity, date>>     *)
(* A date is the number of its day, day 1 being 2014-01-01.                 *)
(***************************************************************************)
\* drop_duplicates(): the first occurrence of every row, in order
RECURSIVE DropDuplicates(_)
DropDuplicates(rows) ==
    IF rows = <<>> THEN <<>>
    ELSE LET init == DropDuplicates(SubSeq(rows, 1, Len(rows) - 1))
             last == rows[Len(rows)]
         IN  IF last \in Range(init) THEN init ELSE Append(init, last)

\* lines 180-199: the customer dimension, a row per source row
transform_customer_data(df) == df

\* lines 226-232: product_df
ProductDim(df) == [i \in DOMAIN df |-> <<df[i][1], df[i][2], df[i][3], df[i][4], df[i][6]>>]

\* lines 214-217: store_df, the distinct (storeID, storeName)
StoreDim(df) == DropDuplicates([i \in DOMAIN df |-> <<df[i][4], df[i][5]>>])

\* lines 220-223: supplier_df, the distinct (supplierID, supplierName)
SupplierDim(df) == DropDuplicates([i \in DOMAIN df |-> <<df[i][6], df[i][7]>>])

\* the Gregorian calendar of pd.date_range and of the Timestamp fields
IsLeapYear(year) == (year % 4 = 0 /\ year % 100 # 0) \/ year % 400 = 0

DaysInYear(year) == IF IsLeapYear(year) THEN 366 ELSE 365

DaysInMonth(year, month) ==
    IF month = 2 THEN (IF IsLeapYear(year) THEN 29 ELSE 28)
    ELSE IF month \in {4, 6, 9, 11} THEN 30 ELSE 31

\* the day n of the days counted from the first of month of year
RECURSIVE CivilFrom(_, _, _)
CivilFrom(n, year, month) ==
    IF month = 1 /\ n > DaysInYear(year) THEN CivilFrom(n - DaysInYear(year), year + 1, 1)
    ELSE IF n > DaysInMonth(year, month)
    THEN CivilFrom(n - DaysInMonth(year, month), year, month + 1)
    ELSE [year |-> year, month |-> month, day |-> n]

\* the date of a day number
Civil(date) == CivilFrom(date, 2014, 1)

\* date.dayofweek, Monday 0 to Sunday 6; day 1 is a Wednesday
DayOfWeek(date) == (date + 1) % 7

\* the seasons by calendar quarter
SeasonByQuarter(month) ==
    IF month \in {1, 2, 3} THEN "Winter"
    ELSE IF month \in {4, 5, 6} THEN "Spring"
    ELSE IF month \in {7, 8, 9} THEN "Summer"
    ELSE "Fall"

\* lines 256-264
Season(month) ==
    IF month \in {12, 1, 2} THEN "Winter"
    ELSE IF month \in {3, 4, 5} THEN "Spring"
    ELSE IF month \in {6, 7, 8} THEN "Summer"
    ELSE "Fall"

\* line 267
WeekdayWeekend(date) == IF DayOfWeek(date) >= 5 THEN "Weekend" ELSE "Weekday"

\* line 274: date.strftime('%B')
MonthName(month) ==
    <<"January", "February", "March", "April", "May", "June", "July", "August",
      "September", "October", "November", "December">>[month]

\* line 275: f'Q{(date.month-1)//3 + 1}'
Quarter(month) == <<"Q1", "Q2", "Q3", "Q4">>[(month - 1) \div 3 + 1]

\* lines 269-279: the row of the idx-th day of the range, its columns
\* <<Date_ID, Full_Date, Day, Month, Month_Name, Quarter, Year,
\*   Weekday_Weekend, Season>>
DateRow(idx, date) ==
    LET c == Civil(date)
    IN  <<idx, date, c.day, c.month, MonthName(c.month), Quarter(c.month), c.year,
          WeekdayWeekend(date), Season(c.month)>>

\* lines 251-283: a row per day from start_date to end_date, Date_ID the
\* position of the day in the range, from 1
generate_date_dimension(start_date, end_date) ==
    [idx \in 1..(end_date - start_date + 1) |-> DateRow(idx, start_date + idx - 1)]

(***************************************************************************)
(* ETLPipeline.prepare_fact_data                                           *)
(***************************************************************************)
TransactionColumns == <<"orderID", "Customer_ID", "Product_ID", "quantity", "date">>

\* line 598: product_dim[['Product_ID', 'Store_ID', 'Supplier_ID', 'Price']]
ProductKeys(product_dim) ==
    DataFrame(<<"Product_ID", "Store_ID", "Supplier_ID", "Price">>,
              [i \in DOMAIN product_dim |->
                  <<product_dim[i][1], product_dim[i][4], product_dim[i][5], product_dim[i][3]>>])

\* lines 611-633: one joined row and one date row with its date, as a fact row
\* <<OrderID, Customer_ID, Product_ID, Store_ID, Supplier_ID, Date_ID,
\*   Quantity, Total_Amount, Revenue>>
FactRow(tp, date_row) ==
    LET total == DictGet(tp, "quantity") * DictGet(tp, "Price")
    IN  <<DictGet(tp, "orderID"), DictGet(tp, "Customer_ID"), DictGet(tp, "Product_ID"),
          DictGet(tp, "Store_ID"), DictGet(tp, "Supplier_ID"), date_row[1],
          DictGet(tp, "quantity"), total, total>>

\* lines 611-617: pd.merge(trans_product, date_mapping, how='inner'), from
\* joined row i on
RECURSIVE MergeDates(_, _, _, _)
MergeDates(trans_product, date_dim, i, fact_rows) ==
    IF i > Len(trans_product) THEN fact_rows
    ELSE LET tp == trans_product[i]
             hits == SelectSeq(date_dim, LAMBDA d : d[2] = DictGet(tp, "date"))
         IN  MergeDates(trans_product, date_dim, i + 1,
                        fact_rows \o [j \in DOMAIN hits |-> FactRow(tp, hits[j])])

\* line 608: trans_product['date'] raises KeyError when the hash join gave
\* pd.DataFrame(), a dataset of no rows and no columns
DateColumnMissing(trans_product) == trans_product = <<>>

\* lines 587-641; schema_ok: the transaction source has the columns read
prepare_fact_data(transaction_df, schema_ok, product_dim, date_dim) ==
    IF ~schema_ok THEN Raised("KeyError")
    ELSE LET joined == hash_join(DataFrame(TransactionColumns, transaction_df),
                                 ProductKeys(product_dim), "Product_ID", "Product_ID")
         IN  IF joined.raised THEN joined
             ELSE IF DateColumnMissing(joined.rows) THEN Raised("KeyError")
             ELSE Returned(DropDuplicates(MergeDates(joined.rows, date_dim, 1, <<>>)))

(***************************************************************************)
(* ETLPipeline.run_quality_checks                                          *)
(***************************************************************************)
\* FROM Sales_Fact sf JOIN dim ON sf.col = dim.key: only the matched pairs
InnerJoin(fact_rows, col, dim_rows) ==
    LET Matches(f) == SelectSeq(dim_rows, LAMBDA d : d[1] = f[col])
        RECURSIVE Joined(_)
        Joined(i) ==
            IF i > Len(fact_rows) THEN <<>>
            ELSE [j \in DOMAIN Matches(fact_rows[i]) |->
                     [sf |-> fact_rows[i], dim |-> <<Matches(fact_rows[i])[j]>>]]
                 \o Joined(i + 1)
    IN  Joined(1)

\* FROM Sales_Fact sf LEFT JOIN dim ON sf.col = dim.key: every fact row with
\* each dimension row of its key, or with none (the NULL row)
LeftJoin(fact_rows, col, dim_rows) ==
    LET Matches(f) == SelectSeq(dim_rows, LAMBDA d : d[1] = f[col])
        RECURSIVE Joined(_)
        Joined(i) ==
            IF i > Len(fact_rows) THEN <<>>
            ELSE (IF Matches(fact_rows[i]) = <<>>
                  THEN <<[sf |-> fact_rows[i], dim |-> <<>>]>>
                  ELSE [j \in DOMAIN Matches(fact_rows[i]) |->
                           [sf |-> fact_rows[i], dim |-> <<Matches(fact_rows[i])[j]>>]])
                 \o Joined(i + 1)
    IN  Joined(1)

\* lines 692-704: SELECT COUNT(*) ... WHERE dim.key IS NULL
OrphanCount(fact_rows, col, dim_rows) ==
    Len(SelectSeq(LeftJoin(fact_rows, col, dim_rows), LAMBDA r : r.dim = <<>>))

\* line 710: a check passes when its count is 0
CheckStatus(count) == IF count = 0 THEN "PASS" ELSE "FAIL"

\* lines 692-711: the three referential integrity checks over the store
IntegrityReport(st) ==
    LET c == OrphanCount(st["Sales_Fact"], 2, st["Customer_Dim"])
        p == OrphanCount(st["Sales_Fact"], 3, st["Product_Dim"])
        d == OrphanCount(st["Sales_Fact"], 6, st["Date_Dim"])
    IN  [customer |-> c, product |-> p, date |-> d,
         customer_status |-> CheckStatus(c), product_status |-> CheckStatus(p),
         date_status |-> CheckStatus(d)]

\* an audit that removes the fact rows it found without a customer
AuditDeletesOrphans(st) ==
    [st EXCEPT !["Sales_Fact"] =
        SelectSeq(@, LAMBDA f : \E i \in DOMAIN st["Customer_Dim"] : st["Customer_Dim"][i][1] = f[2])]

\* lines 662-711: the audit only issues SELECT statements
AuditStore(st) == st

(***************************************************************************)
(* State.                                                                  *)
(***************************************************************************)
VARIABLES
    left_df,        \* hash_join / nested_loop_join: the left dataset
    right_df,       \* the right dataset
    hj_result,      \* what hash_join(left_df, right_df, "k", "k") returned
    nl_result,      \* what nested_loop_join(left_df, right_df, equal "k") returned
    max_workers,    \* MultithreadedLoader.max_workers
    results,        \* MultithreadedLoader.results
    store,          \* the committed rows of every table of the store
    pl_pc,          \* parallel_load: "idle", "collecting", "unwinding", "raised"
    pl_table,       \* parallel_load: table_name
    pl_data,        \* parallel_load: data
    batches,        \* parallel_load: batches
    wpc,            \* per batch: where its load_*_batch call stands
    conn,           \* per batch: the connection of its load: "none", "open", "closed"
    fut,            \* per batch: what its future holds
    collected,      \* the futures as_completed has yielded
    total_loaded,   \* parallel_load: total_loaded of the latest summary
    failed,         \* parallel_load: failed of the latest summary
    calls,          \* parallel_load invocations started
    pl_base,        \* len(self.results) when the current invocation started
    abandoned,      \* connections earlier invocations left open
    dispatched,     \* per batch: how many times a worker took it
    committed,      \* the batches whose commit succeeded
    faults,         \* store failures injected so far
    snap,           \* the store as it was when the current invocation started
    p_data,         \* the partitioning alone: the dataset
    p_size,         \* its batch_size
    p_batches,      \* the batches it gave
    p_called,       \* whether it was applied
    source,         \* ETLPipeline.run: the three source files
    run_pc,         \* the step run() is at, "done" or "failed" once it ended
    dims,           \* the transformed dimension datasets
    fact_df,        \* what prepare_fact_data returned
    exc,            \* the exception run() re-raises, with the step that raised it
    db_conn,        \* the pipeline's own connection: "none", "open", "closed"
    phases,         \* the phases run() has entered, in order
    started,        \* the tables parallel_load was called for, in order
    report,         \* the counts of the referential integrity checks
    pre_audit,      \* the store as it was when run_quality_checks was called
    d_start,        \* the date dimension alone: start_date
    d_end,          \* end_date
    date_df,        \* the rows generate_date_dimension returned
    d_called        \* whether it was called

join_vars == <<left_df, right_df, hj_result, nl_result>>

loader_vars == <<max_workers, results, store, pl_pc, pl_table, pl_data, batches, wpc,
                 conn, fut, collected, total_loaded, failed, calls, pl_base,
                 abandoned, dispatched, committed, faults, snap>>

part_vars == <<p_data, p_size, p_batches, p_called>>

pipe_vars == <<source, run_pc, dims, fact_df, exc, db_conn, phases, started, report,
               pre_audit>>

date_vars == <<d_start, d_end, date_df, d_called>>

vars == <<join_vars, loader_vars, part_vars, pipe_vars, date_vars>>

\* ETLPipeline.__init__: MultithreadedLoader(db_config, max_workers=4)
DefaultMaxWorkers == 4

StoreTables == DimensionTables \cup {FactTable}

\* MultithreadedLoader.__init__; no parallel_load yet
LoaderFresh ==
    /\ results = <<>>
    /\ pl_pc = "idle"
    /\ pl_table = "none"
    /\ pl_data = <<>>
    /\ batches = <<>>
    /\ wpc = <<>>
    /\ conn = <<>>
    /\ fut = <<>>
    /\ collected = {}
    /\ total_loaded = 0
    /\ failed = 0
    /\ calls = 0
    /\ pl_base = 0
    /\ abandoned = 0
    /\ dispatched = <<>>
    /\ committed = {}
    /\ faults = 0
    /\ snap = store

\* a fresh loader and an empty store
LoaderIdle ==
    /\ store = [t \in StoreTables |-> <<>>]
    /\ LoaderFresh

\* no join applied
JoinIdle ==
    /\ left_df = DataFrame(LeftColumns, <<>>)
    /\ right_df = DataFrame(RightColumns, <<>>)
    /\ hj_result = NotCalled
    /\ nl_result = NotCalled

\* no partitioning applied on its own
PartIdle ==
    /\ p_data = <<>>
    /\ p_size = 1
    /\ p_batches = <<>>
    /\ p_called = FALSE

NoException == [step |-> "none", error |-> "none"]

NoReport == [audited |-> FALSE]

NoDims == [customer |-> <<>>, product |-> <<>>, store |-> <<>>, supplier |-> <<>>,
           date |-> <<>>]

NoSource == [customers |-> <<>>, products |-> <<>>, transactions |-> <<>>,
             defect |-> "none"]

\* no pipeline run
PipeIdle ==
    /\ source = NoSource
    /\ run_pc = "idle"
    /\ dims = NoDims
    /\ fact_df = <<>>
    /\ exc = NoException
    /\ db_conn = "none"
    /\ phases = <<>>
    /\ started = <<>>
    /\ report = NoReport
    /\ pre_audit = store

\* generate_date_dimension not applied on its own
DateIdle ==
    /\ d_start = 1
    /\ d_end = 0
    /\ date_df = <<>>
    /\ d_called = FALSE

(***************************************************************************)
(* The join engine applied to bounded inputs.                              *)
(***************************************************************************)
JoinInit ==
    /\ left_df \in LeftDatasets
    /\ right_df \in RightDatasets
    /\ hj_result = NotCalled
    /\ nl_result = NotCalled
    /\ max_workers = DefaultMaxWorkers
    /\ LoaderIdle
    /\ PartIdle
    /\ PipeIdle
    /\ DateIdle

Called(r) == "called" \notin DOMAIN r

HashJoinCall ==
    /\ ~Called(hj_result)
    /\ hj_result' = hash_join(left_df, right_df, "k", "k")
    /\ UNCHANGED <<left_df, right_df, nl_result, loader_vars, part_vars, pipe_vars, date_vars>>

NestedLoopJoinCall ==
    /\ ~Called(nl_result)
    /\ nl_result' = nested_loop_join(left_df, right_df, "k")
    /\ UNCHANGED <<left_df, right_df, hj_result, loader_vars, part_vars, pipe_vars, date_vars>>

JoinNext == HashJoinCall \/ NestedLoopJoinCall

JoinSpec == JoinInit /\ [][JoinNext]_vars

(***************************************************************************)
(* The loader: parallel_load and the batch loads of its pool.              *)
(***************************************************************************)
BatchIds == DOMAIN batches

Running == {b \in BatchIds : wpc[b] \in {"connect", "execute", "commit", "close"}}

\* lines 473-483: ThreadPoolExecutor(max_workers) runs the submitted calls in
\* submission order, at most max_workers of them at a time
CanStart(b) ==
    /\ wpc[b] = "queued"
    /\ \A c \in BatchIds : c < b => wpc[c] # "queued"
    /\ Cardinality(Running) < max_workers

\* the call returning without waiting for its pool
NoBarrier == TRUE

\* lines 473-489: the as_completed loop ends when every future was yielded,
\* and leaving the with block joins the pool
JoinBarrier ==
    /\ \A b \in BatchIds : wpc[b] = "done"
    /\ pl_pc = "collecting" => collected = BatchIds

\* line 382, 438: conn.close()
CloseConnection(c) == "closed"

\* lines 459-483: parallel_load partitions the data and submits every batch
ParallelLoadBody(table_name, data, batch_size) ==
    /\ pl_pc = "idle"
    /\ calls' = calls + 1
    /\ pl_pc' = "collecting"
    /\ pl_table' = table_name
    /\ pl_data' = data
    /\ batches' = Partition(data, batch_size)
    /\ wpc' = [b \in DOMAIN batches' |-> "queued"]
    /\ conn' = [b \in DOMAIN batches' |-> "none"]
    /\ fut' = [b \in DOMAIN batches' |-> NoOutcome]
    /\ dispatched' = [b \in DOMAIN batches' |-> 0]
    /\ collected' = {}
    /\ committed' = {}
    /\ pl_base' = Len(results)
    /\ snap' = store
    /\ abandoned' = abandoned + Cardinality({b \in BatchIds : conn[b] = "open"})
    /\ UNCHANGED <<max_workers, results, store, total_loaded, failed, faults>>

\* parallel_load called on a loader, within the bounds of a run
ParallelLoadCall(table_name, data, batch_size) ==
    /\ calls < MaxCalls
    /\ Len(results) + Len(Partition(data, batch_size)) <= MaxBatches
    /\ ParallelLoadBody(table_name, data, batch_size)
    /\ UNCHANGED <<join_vars, part_vars, pipe_vars, date_vars>>

\* a pool thread takes the next submitted call
WorkerStart(b) ==
    /\ CanStart(b)
    /\ wpc' = [wpc EXCEPT ![b] = "connect"]
    /\ dispatched' = [dispatched EXCEPT ![b] = @ + 1]
    /\ UNCHANGED <<max_workers, results, store, pl_pc, pl_table, pl_data, batches, conn,
                   fut, collected, total_loaded, failed, calls, pl_base, snap, abandoned,
                   committed, faults, join_vars, part_vars, pipe_vars, date_vars>>

\* the except branch of the load: the batch ends with a failure outcome,
\* its connection left as it was
BatchFails(b, err, injected) ==
    /\ fut' = [fut EXCEPT ![b] = FailureOutcome(b - 1, pl_table, err)]
    /\ wpc' = [wpc EXCEPT ![b] = "done"]
    /\ faults' = faults + injected

\* lines 310-316, 415-421: mysql.connector.connect and conn.cursor()
Connect(b) ==
    /\ wpc[b] = "connect"
    /\ \/ /\ conn' = [conn EXCEPT ![b] = "open"]
          /\ wpc' = [wpc EXCEPT ![b] = "execute"]
          /\ UNCHANGED <<fut, faults>>
       \/ /\ faults < MaxFaults
          /\ BatchFails(b, "connect", 1)
          /\ UNCHANGED conn
    /\ UNCHANGED <<max_workers, results, store, pl_pc, pl_table, pl_data, batches,
                   collected, total_loaded, failed, calls, pl_base, snap, abandoned,
                   dispatched, committed, join_vars, part_vars, pipe_vars, date_vars>>

\* lines 320-377, 425-433: the statement of the table and cursor.executemany
Execute(b) ==
    /\ wpc[b] = "execute"
    /\ IF Sql(pl_table) = "unbound"
       THEN BatchFails(b, "UnboundLocalError", 0)
       ELSE \/ /\ wpc' = [wpc EXCEPT ![b] = "commit"]
               /\ UNCHANGED <<fut, faults>>
            \/ /\ faults < MaxFaults
               /\ BatchFails(b, "execute", 1)
    /\ UNCHANGED <<max_workers, results, store, pl_pc, pl_table, pl_data, batches, conn,
                   collected, total_loaded, failed, calls, pl_base, snap, abandoned,
                   dispatched, committed, join_vars, part_vars, pipe_vars, date_vars>>

\* lines 378-380, 434-436: conn.commit() makes the rows of the batch part of
\* the store; rows_affected = cursor.rowcount
Commit(b) ==
    /\ wpc[b] = "commit"
    /\ \/ LET r == ExecuteMany(Sql(pl_table), store[pl_table], batches[b], 1, 0)
          IN  /\ store' = [store EXCEPT ![pl_table] = r.rows]
              /\ committed' = committed \cup {b}
              /\ fut' = [fut EXCEPT ![b] = SuccessOutcome(b - 1, pl_table, r.rowcount)]
              /\ wpc' = [wpc EXCEPT ![b] = "close"]
              /\ UNCHANGED faults
       \/ /\ faults < MaxFaults
          /\ BatchFails(b, "commit", 1)
          /\ UNCHANGED <<store, committed>>
    /\ UNCHANGED <<max_workers, results, pl_pc, pl_table, pl_data, batches, conn,
                   collected, total_loaded, failed, calls, pl_base, snap, abandoned,
                   dispatched, join_vars, part_vars, pipe_vars, date_vars>>

\* lines 381-391, 437-447: cursor.close(), conn.close(), return the result
CloseAndReturn(b) ==
    /\ wpc[b] = "close"
    /\ conn' = [conn EXCEPT ![b] = CloseConnection(@)]
    /\ wpc' = [wpc EXCEPT ![b] = "done"]
    /\ UNCHANGED <<max_workers, results, store, pl_pc, pl_table, pl_data, batches, fut,
                   collected, total_loaded, failed, calls, pl_base, snap, abandoned,
                   dispatched, committed, faults, join_vars, part_vars, pipe_vars, date_vars>>

\* lines 486-488: as_completed yields a finished future; future.result()
\* returns its LoadResult, or raises what the call raised
Collect(b) ==
    /\ pl_pc = "collecting"
    /\ wpc[b] = "done"
    /\ b \notin collected
    /\ collected' = collected \cup {b}
    /\ IF fut[b].kind = "raise"
       THEN pl_pc' = "unwinding" /\ UNCHANGED results
       ELSE results' = AppendResult(results, fut[b].result) /\ UNCHANGED pl_pc
    /\ UNCHANGED <<max_workers, store, pl_table, pl_data, batches, wpc, conn, fut,
                   total_loaded, failed, calls, pl_base, snap, abandoned, dispatched,
                   committed, faults, join_vars, part_vars, pipe_vars, date_vars>>

\* lines 489-494: the with block is left and the summary computed over
\* self.results; an exception of the loop leaves the call without a summary
FinishParallelLoad ==
    /\ pl_pc \in {"collecting", "unwinding"}
    /\ JoinBarrier
    /\ IF pl_pc = "unwinding"
       THEN pl_pc' = "raised" /\ UNCHANGED <<total_loaded, failed>>
       ELSE /\ pl_pc' = "idle"
            /\ total_loaded' = SumRowsLoaded(results)
            /\ failed' = CountFailed(results)
    /\ UNCHANGED <<max_workers, results, store, pl_table, pl_data, batches, wpc, conn,
                   fut, collected, calls, pl_base, snap, abandoned, dispatched, committed,
                   faults, join_vars, part_vars, pipe_vars, date_vars>>

\* the rows the loader is handed: row i has key i
SourceRow(i) == <<i, i>>

LoaderDatasets == {[i \in 1..n |-> SourceRow(i)] : n \in 0..MaxData}

\* a dimension table, the fact table and a name load_dimension_batch has no
\* statement for
LoaderTables == {"Store_Dim", FactTable, "Region_Dim"}

LoaderInit ==
    /\ max_workers \in 1..MaxPool
    /\ LoaderIdle
    /\ JoinIdle
    /\ PartIdle
    /\ PipeIdle
    /\ DateIdle

LoaderNext ==
    \/ \E t \in LoaderTables, d \in LoaderDatasets, s \in 1..MaxBatchSize :
          ParallelLoadCall(t, d, s)
    \/ \E b \in BatchIds : WorkerStart(b)
    \/ \E b \in BatchIds : Connect(b)
    \/ \E b \in BatchIds : Execute(b)
    \/ \E b \in BatchIds : Commit(b)
    \/ \E b \in BatchIds : CloseAndReturn(b)
    \/ \E b \in BatchIds : Collect(b)
    \/ FinishParallelLoad

LoaderSpec == LoaderInit /\ [][LoaderNext]_vars

\* the key column is a column of the dataset
HasKey(df) == "k" \in Range(df.columns)

\* how often key value v occurs in the key column of df
KeyCount(df, v) ==
    Cardinality({i \in 1..DfLen(df) : DictGet(RowDict(df, i), "k") = v})

AllKeyVals == KeyVals \cup {3}

\* C1: on datasets that both have the key column k, hash_join(A, B, k, k) and
\* nested_loop_join(A, B, rows-have-equal-k) return the same multiset of
\* combined rows.
C1_HashEqualsNestedLoop ==
    (Called(hj_result) /\ Called(nl_result) /\ HasKey(left_df) /\ HasKey(right_df))
        => /\ ~hj_result.raised
           /\ ~nl_result.raised
           /\ SameMultiset(hj_result.rows, nl_result.rows)

\* duplicate keys on both sides, joined by both algorithms
C1_Witness ==
    /\ Called(hj_result) /\ Called(nl_result)
    /\ HasKey(left_df) /\ HasKey(right_df)
    /\ \E v \in AllKeyVals : KeyCount(left_df, v) = 2 /\ KeyCount(right_df, v) = 2
    /\ Len(nl_result.rows) = 4

\* C2: a key value occurring m times in the left dataset and n times in the
\* right dataset has exactly m*n rows in the result of hash_join, whichever
\* side is the build side.
C2_Cardinality ==
    (Called(hj_result) /\ HasKey(left_df) /\ HasKey(right_df))
        => /\ ~hj_result.raised
           /\ \A v \in AllKeyVals :
                Cardinality({i \in DOMAIN hj_result.rows :
                                DictGet(hj_result.rows[i], "k") = v})
                    = KeyCount(left_df, v) * KeyCount(right_df, v)

\* left keys [1,2,2] and right keys [2,3]: two rows, both for key 2
C2_Witness ==
    /\ left_df = ScenarioLeft /\ right_df = ScenarioRight
    /\ Called(hj_result)
    /\ Len(hj_result.rows) = 2
    /\ \A i \in 1..2 : DictGet(hj_result.rows[i], "k") = 2

\* the row the caller expects of left row i and right row j: the left
\* columns in order then the columns only the right has, a column of the
\* right row with the right row's value
ExpectedRow(i, j) ==
    LET lcols == left_df.columns
        rcols == right_df.columns
        ronly == SelectSeq(rcols, LAMBDA c : c \notin Range(lcols))
        cols == lcols \o ronly
        RVal(c) == right_df.values[j][CHOOSE n \in DOMAIN rcols : rcols[n] = c]
        LVal(c) == left_df.values[i][CHOOSE n \in DOMAIN lcols : lcols[n] = c]
    IN  [n \in DOMAIN cols |->
            <<cols[n], IF cols[n] \in Range(rcols) THEN RVal(cols[n]) ELSE LVal(cols[n])>>]

MatchingPairs ==
    {p \in (1..DfLen(left_df)) \X (1..DfLen(right_df)) :
        left_df.values[p[1]][CHOOSE n \in DOMAIN left_df.columns : left_df.columns[n] = "k"]
      = right_df.values[p[2]][CHOOSE n \in DOMAIN right_df.columns : right_df.columns[n] = "k"]}

\* C3: the rows hash_join returns are exactly the rows "left columns followed
\* by right columns, shared columns from the right row" of the matching
\* pairs, both when the left and when the right dataset is the build side.
C3_LeftRightPreserved ==
    (Called(hj_result) /\ HasKey(left_df) /\ HasKey(right_df))
        => /\ ~hj_result.raised
           /\ Range(hj_result.rows) = {ExpectedRow(p[1], p[2]) : p \in MatchingPairs}

\* the right dataset is the build side and the shared column differs
C3_Witness ==
    /\ Called(hj_result)
    /\ HasKey(left_df) /\ HasKey(right_df)
    /\ DfLen(left_df) > DfLen(right_df)
    /\ \E p \in MatchingPairs :
          /\ left_df.values[p[1]][3] # right_df.values[p[2]][2]
          /\ hj_result.rows[1] = <<<<"a", left_df.values[p[1]][1]>>, <<"k", left_df.values[p[1]][2]>>,
                                   <<"c", right_df.values[p[2]][2]>>, <<"b", right_df.values[p[2]][3]>>>>

\* C4: a hash join whose key column is absent from the left or from the
\* right dataset fails with an error, empty datasets included.
C4_AbsentKeyAlwaysFails ==
    (Called(hj_result) /\ (~HasKey(left_df) \/ ~HasKey(right_df)))
        => hj_result.raised

(***************************************************************************)
(* Claims about the loader.                                                *)
(***************************************************************************)
\* the current parallel_load invocation has ended, by return or by exception
Terminated == calls > 0 /\ pl_pc \in {"idle", "raised"}

\* the results the current invocation appended to self.results
OwnResults == SubSeq(results, pl_base + 1, Len(results))

ResultsOf(b) == {i \in DOMAIN OwnResults : OwnResults[i].thread_id = b - 1}

\* the batches of the current invocation whose load ended without a commit
FailedBatches == {b \in BatchIds : wpc[b] = "done" /\ b \notin committed}

OpenConnections == abandoned + Cardinality({b \in BatchIds : conn[b] = "open"})

\* C5: a finished load_dimension_batch / load_fact_batch has returned a
\* LoadResult and raised nothing: status failed, rows_loaded 0 and an error
\* detail when the load did not get through its commit (unrecognised table
\* name included), status success otherwise.
C5_LoadNeverRaises ==
    \A b \in BatchIds :
        wpc[b] = "done" =>
            /\ fut[b].kind = "return"
            /\ fut[b].result.thread_id = b - 1
            /\ fut[b].result.table = pl_table
            /\ IF b \in committed
               THEN fut[b].result.status = "success"
               ELSE /\ fut[b].result.status = "failed"
                    /\ fut[b].result.rows_loaded = 0
                    /\ fut[b].result.error # "none"
            /\ Sql(pl_table) = "unbound" => fut[b].result.status = "failed"

\* one load has failed at its commit, another has succeeded
C5_Witness ==
    \E b1, b2 \in BatchIds :
        /\ wpc[b1] = "done" /\ wpc[b2] = "done"
        /\ fut[b1].kind = "return" /\ fut[b2].kind = "return"
        /\ fut[b1].result.status = "failed" /\ fut[b1].result.error = "commit"
        /\ fut[b2].result.status = "success"

\* C6: once a batch load has returned, with success or failure, the
\* connection it opened is closed; no loader connection stays open.
C6_ConnectionReleased ==
    /\ \A b \in BatchIds : wpc[b] = "done" => conn[b] # "open"
    /\ abandoned = 0

\* C7: when exactly one batch of an invocation fails, parallel_load ends by
\* returning, every other batch has committed and has exactly one collected
\* result of status success, and the failed batch has exactly one result of
\* status failed.
C7_PartialFailureIsolation ==
    (Terminated /\ Cardinality(FailedBatches) = 1) =>
        /\ pl_pc = "idle"
        /\ Len(OwnResults) = Len(batches)
        /\ \A b \in BatchIds :
              /\ Cardinality(ResultsOf(b)) = 1
              /\ \A i \in ResultsOf(b) :
                    OwnResults[i].status = IF b \in FailedBatches THEN "failed" ELSE "success"
              /\ b \notin FailedBatches => b \in committed

\* two batches, one failed and one committed, both collected
C7_Witness ==
    /\ Terminated
    /\ Len(batches) = 2
    /\ Cardinality(FailedBatches) = 1
    /\ Cardinality(committed) = 1
    /\ Len(OwnResults) = 2

\* C8: the summary of every invocation without a failed batch has
\* total_loaded equal to the length of that invocation's dataset and a
\* failed count that counts that invocation's batches only.
C8_PerInvocationSummary ==
    (pl_pc = "idle" /\ calls > 0 /\ FailedBatches = {}) =>
        /\ total_loaded = Len(pl_data)
        /\ failed = CountFailed(OwnResults)

\* C9: every batch is taken by a worker at most once, and when parallel_load
\* has returned every batch of the invocation was taken exactly once, has
\* finished and has exactly one collected result; no worker is running when
\* the next invocation can start.
C9_JoinBarrier ==
    /\ \A b \in BatchIds :
          dispatched[b] = IF wpc[b] = "queued" THEN 0 ELSE 1
    /\ (pl_pc = "idle" /\ calls > 0) =>
          /\ Running = {}
          /\ Len(OwnResults) = Len(batches)
          /\ \A b \in BatchIds :
                /\ wpc[b] = "done"
                /\ dispatched[b] = 1
                /\ Cardinality(ResultsOf(b)) = 1

\* a second invocation has returned after the first, each with its batches
C9_Witness ==
    /\ pl_pc = "idle"
    /\ calls = 2
    /\ pl_base >= 1
    /\ Len(batches) >= 1
    /\ Len(results) = pl_base + Len(batches)

\* at most max_workers batch loads run at a time
C10_RunningBounded == Cardinality(Running) <= max_workers

\* C10: at most max_workers batches are being loaded at a time, hence at
\* most max_workers loader connections are open at a time.
C10_PoolAndConnectionsBounded ==
    /\ Cardinality(Running) <= max_workers
    /\ OpenConnections <= max_workers

(***************************************************************************)
(* The partitioning of parallel_load applied to bounded inputs.            *)
(***************************************************************************)
PartRowValues == {1, 2, 3}

PartitionInit ==
    /\ p_data \in SeqsUpTo(PartRowValues, MaxData)
    /\ p_size \in 1..MaxBatchSize
    /\ p_batches = <<>>
    /\ p_called = FALSE
    /\ max_workers = DefaultMaxWorkers
    /\ LoaderIdle
    /\ JoinIdle
    /\ PipeIdle
    /\ DateIdle

PartitionCall ==
    /\ ~p_called
    /\ p_called' = TRUE
    /\ p_batches' = Partition(p_data, p_size)
    /\ UNCHANGED <<p_data, p_size, join_vars, loader_vars, pipe_vars, date_vars>>

PartitionNext == PartitionCall

PartitionSpec == PartitionInit /\ [][PartitionNext]_vars

RECURSIVE Flatten(_)
Flatten(ss) == IF ss = <<>> THEN <<>> ELSE Head(ss) \o Flatten(Tail(ss))

\* C11: for n rows and batch size s >= 1 there are ceil(n/s) batches, batch
\* i holds rows [i*s, min((i+1)*s, n)) in order (0-based), only the last may
\* be shorter than s, the batches concatenated are the dataset, and an empty
\* dataset has no batch.
C11_Partitioning ==
    p_called =>
        LET n == Len(p_data)
            k == Len(p_batches)
        IN  /\ k * p_size >= n
            /\ (k - 1) * p_size < n \/ (n = 0 /\ k = 0)
            /\ \A i \in 1..k :
                  /\ Len(p_batches[i]) = Min(i * p_size, n) - (i - 1) * p_size
                  /\ i < k => Len(p_batches[i]) = p_size
                  /\ \A j \in 1..Len(p_batches[i]) :
                        p_batches[i][j] = p_data[(i - 1) * p_size + j]
            /\ Flatten(p_batches) = p_data
            /\ n = 0 => p_batches = <<>>

\* three rows in batches of two: a full batch and a shorter last one
C11_Witness ==
    /\ p_called
    /\ Len(p_data) = 3 /\ p_size = 2
    /\ Len(p_batches) = 2
    /\ Len(p_batches[1]) = 2 /\ Len(p_batches[2]) = 1

(***************************************************************************)
(* One dimension batch loaded twice into a table that may hold rows.       *)
(***************************************************************************)
UpsertRows == {<<k, v>> : k \in KeyVals, v \in {1, 2}}

TableKeys(rows) == {rows[i][1] : i \in DOMAIN rows}

UniqueKeys(rows) == \A i, j \in DOMAIN rows : rows[i][1] = rows[j][1] => i = j

\* the rows a dimension table holds before the run: one row per key
InitialDimRows == {r \in SeqsUpTo(UpsertRows, 2) : UniqueKeys(r)}

UpsertBatches == SeqsUpTo(UpsertRows, MaxRows) \ {<<>>}

UpsertInit ==
    /\ max_workers = DefaultMaxWorkers
    /\ \E r \in InitialDimRows :
          store = [t \in StoreTables |-> IF t \in DimensionTables THEN r ELSE <<>>]
    /\ LoaderFresh
    /\ JoinIdle
    /\ PartIdle
    /\ PipeIdle
    /\ DateIdle

\* parallel_load of a dimension table with the whole data as one batch; the
\* second call repeats the table and the data of the first
UpsertLoadCall ==
    /\ calls < 2
    /\ \E t \in DimensionTables, d \in UpsertBatches :
          /\ calls = 1 => (t = pl_table /\ d = pl_data)
          /\ ParallelLoadBody(t, d, Len(d))
    /\ UNCHANGED <<join_vars, part_vars, pipe_vars, date_vars>>

UpsertNext ==
    \/ UpsertLoadCall
    \/ \E b \in BatchIds : WorkerStart(b)
    \/ \E b \in BatchIds : Connect(b)
    \/ \E b \in BatchIds : Execute(b)
    \/ \E b \in BatchIds : Commit(b)
    \/ \E b \in BatchIds : CloseAndReturn(b)
    \/ \E b \in BatchIds : Collect(b)
    \/ FinishParallelLoad

UpsertSpec == UpsertInit /\ [][UpsertNext]_vars

\* the batch is being loaded a second time, its first load having succeeded
SecondLoad == calls = 2 /\ results # <<>> /\ results[1].status = "success"

\* C12: for every dimension table and batch, a second load of the batch
\* leaves the row count and the set of keys of the table as the first load
\* left them.
C12_UpsertIdempotent ==
    SecondLoad =>
        /\ Len(store[pl_table]) = Len(snap[pl_table])
        /\ TableKeys(store[pl_table]) = TableKeys(snap[pl_table])

\* the second load of a batch has committed
C12_Witness ==
    /\ SecondLoad
    /\ pl_pc = "idle"
    /\ committed = {1}
    /\ Len(results) = 2 /\ results[2].status = "success"
    /\ Len(store[pl_table]) >= 1

\* the last row of the batch with the key
LastWithKey(data, k) ==
    data[CHOOSE i \in DOMAIN data :
            /\ data[i][1] = k
            /\ \A j \in DOMAIN data : data[j][1] = k => j <= i]

\* the table holds, for every key of the committed batch, one row, with the
\* values the batch gave last for the key
BatchApplied ==
    \A k \in TableKeys(pl_data) :
        {store[pl_table][i] : i \in {j \in DOMAIN store[pl_table] : store[pl_table][j][1] = k}}
            = {LastWithKey(pl_data, k)}

FirstWithKey(data, k) ==
    data[CHOOSE i \in DOMAIN data :
            /\ data[i][1] = k
            /\ \A j \in DOMAIN data : data[j][1] = k => i <= j]

RowsWithKey(rows, k) == {rows[i] : i \in {j \in DOMAIN rows : rows[j][1] = k}}

FirstDay == 366

\* the days of the date dimension of a run
RunDays == 2

\* lines 727-743 with 535-557 inlined: the statements of run() in program order
ProgramOrderLazyTransforms ==
    <<"load_csv_data", "transform_product_data", "load_Store_Dim", "load_Supplier_Dim",
      "transform_customer_data", "generate_date_dimension", "load_Customer_Dim",
      "load_Product_Dim", "load_Date_Dim", "prepare_fact_data", "load_fact_table",
      "get_connection", "quality_queries", "return">>

ProgramOrderFactsEarly ==
    <<"load_csv_data", "transform_customer_data", "transform_product_data",
      "generate_date_dimension", "load_Store_Dim", "load_Supplier_Dim",
      "load_Customer_Dim", "load_Product_Dim", "prepare_fact_data", "load_Date_Dim",
      "load_fact_table", "get_connection", "quality_queries", "return">>

ProgramOrder ==
    <<"load_csv_data", "transform_customer_data", "transform_product_data",
      "generate_date_dimension", "load_Store_Dim", "load_Supplier_Dim",
      "load_Customer_Dim", "load_Product_Dim", "load_Date_Dim", "prepare_fact_data",
      "load_fact_table", "get_connection", "quality_queries", "return">>

\* the statement after step
NextStep(step) ==
    ProgramOrder[(CHOOSE i \in DOMAIN ProgramOrder : ProgramOrder[i] = step) + 1]

DimensionLoadSteps == {"load_Store_Dim", "load_Supplier_Dim", "load_Customer_Dim",
                       "load_Product_Dim", "load_Date_Dim"}

\* lines 545-557: the arguments of the parallel_load of a step
LoadArgs(step) ==
    CASE step = "load_Store_Dim" ->
            [table_name |-> "Store_Dim", data |-> dims.store, batch_size |-> 50]
      [] step = "load_Supplier_Dim" ->
            [table_name |-> "Supplier_Dim", data |-> dims.supplier, batch_size |-> 50]
      [] step = "load_Customer_Dim" ->
            [table_name |-> "Customer_Dim", data |-> dims.customer, batch_size |-> 500]
      [] step = "load_Product_Dim" ->
            [table_name |-> "Product_Dim", data |-> dims.product, batch_size |-> 100]
      [] step = "load_Date_Dim" ->
            [table_name |-> "Date_Dim", data |-> dims.date, batch_size |-> 365]

\* the phase a statement of run() belongs to
PhaseOf(step) ==
    CASE step = "load_csv_data" -> "extract"
      [] step \in {"transform_customer_data", "transform_product_data",
                   "generate_date_dimension"} -> "dimension transforms"
      [] step \in DimensionLoadSteps -> "dimension loads"
      [] step = "prepare_fact_data" -> "fact preparation"
      [] step = "load_fact_table" -> "fact load"
      [] step \in {"get_connection", "quality_queries"} -> "audit"

\* the phases entered once step starts
Enter(step) ==
    IF phases # <<>> /\ phases[Len(phases)] = PhaseOf(step) THEN phases
    ELSE Append(phases, PhaseOf(step))

\* the statement at step is reached: every earlier call has returned
At(step) ==
    /\ run_pc = step
    /\ pl_pc = "idle"

\* the error of step logged and the run going on with its next statement
RaiseSwallowed(step, error) ==
    /\ exc' = exc
    /\ run_pc' = NextStep(step)

\* step raises error: control goes to the except clause of run()
Raise(step, error) ==
    /\ exc' = [step |-> step, error |-> error]
    /\ run_pc' = "except"

loader_but_store == <<max_workers, results, pl_pc, pl_table, pl_data, batches, wpc,
                      conn, fut, collected, total_loaded, failed, calls, pl_base,
                      abandoned, dispatched, committed, faults, snap>>

\* lines 507-526: read_csv of the three files; an unreadable file raises
LoadCsvData ==
    /\ At("load_csv_data")
    /\ phases' = Enter("load_csv_data")
    /\ IF source.defect = "unreadable"
       THEN Raise("load_csv_data", "FileNotFoundError")
       ELSE run_pc' = NextStep("load_csv_data") /\ exc' = exc
    /\ UNCHANGED <<source, dims, fact_df, db_conn, started, report, pre_audit,
                   join_vars, loader_vars, part_vars, date_vars>>

\* line 535; df['Customer_ID'] of a file without the column raises KeyError
TransformCustomerData ==
    /\ At("transform_customer_data")
    /\ phases' = Enter("transform_customer_data")
    /\ IF source.defect = "customer_schema"
       THEN Raise("transform_customer_data", "KeyError") /\ dims' = dims
       ELSE /\ dims' = [dims EXCEPT !.customer = transform_customer_data(source.customers)]
            /\ run_pc' = NextStep("transform_customer_data")
            /\ exc' = exc
    /\ UNCHANGED <<source, fact_df, db_conn, started, report, pre_audit,
                   join_vars, loader_vars, part_vars, date_vars>>

\* line 538; df[['storeID', 'storeName']] of a file without them raises KeyError
TransformProductData ==
    /\ At("transform_product_data")
    /\ phases' = Enter("transform_product_data")
    /\ IF source.defect = "product_schema"
       THEN Raise("transform_product_data", "KeyError") /\ dims' = dims
       ELSE /\ dims' = [dims EXCEPT !.product = ProductDim(source.products),
                                    !.store = StoreDim(source.products),
                                    !.supplier = SupplierDim(source.products)]
            /\ run_pc' = NextStep("transform_product_data")
            /\ exc' = exc
    /\ UNCHANGED <<source, fact_df, db_conn, started, report, pre_audit,
                   join_vars, loader_vars, part_vars, date_vars>>

\* line 541
GenerateDateDimension ==
    /\ At("generate_date_dimension")
    /\ phases' = Enter("generate_date_dimension")
    /\ dims' = [dims EXCEPT !.date = generate_date_dimension(FirstDay, FirstDay + RunDays - 1)]
    /\ run_pc' = NextStep("generate_date_dimension")
    /\ UNCHANGED <<source, fact_df, exc, db_conn, started, report, pre_audit,
                   join_vars, part_vars, date_vars>>
    /\ UNCHANGED loader_vars

\* lines 545-557: one parallel_load call of load_dimensions
LoadDimension ==
    /\ run_pc \in DimensionLoadSteps
    /\ LET args == LoadArgs(run_pc)
       IN  /\ ParallelLoadBody(args.table_name, args.data, args.batch_size)
           /\ started' = Append(started, args.table_name)
    /\ phases' = Enter(run_pc)
    /\ run_pc' = NextStep(run_pc)
    /\ UNCHANGED <<source, dims, fact_df, exc, db_conn, report, pre_audit,
                   join_vars, part_vars, date_vars>>

\* lines 733-737
PrepareFactData ==
    /\ At("prepare_fact_data")
    /\ phases' = Enter("prepare_fact_data")
    /\ LET r == prepare_fact_data(source.transactions,
                                  source.defect # "transaction_schema",
                                  dims.product, dims.date)
       IN  IF r.raised
           THEN Raise("prepare_fact_data", r.error) /\ fact_df' = fact_df
           ELSE /\ fact_df' = r.rows
                /\ run_pc' = NextStep("prepare_fact_data")
                /\ exc' = exc
    /\ UNCHANGED <<source, dims, db_conn, started, report, pre_audit,
                   join_vars, loader_vars, part_vars, date_vars>>

\* lines 643-651
LoadFactTable ==
    /\ run_pc = "load_fact_table"
    /\ ParallelLoadBody(FactTable, fact_df, 1000)
    /\ started' = Append(started, FactTable)
    /\ phases' = Enter("load_fact_table")
    /\ run_pc' = NextStep("load_fact_table")
    /\ UNCHANGED <<source, dims, fact_df, exc, db_conn, report, pre_audit,
                   join_vars, part_vars, date_vars>>

\* line 659: self.db_conn.get_connection(); connect() raises when the store
\* cannot be reached (lines 49-63)
GetConnection ==
    /\ At("get_connection")
    /\ phases' = Enter("get_connection")
    /\ pre_audit' = store
    /\ \/ /\ db_conn' = "open"
          /\ run_pc' = NextStep("get_connection")
          /\ exc' = exc
       \/ /\ Raise("get_connection", "ConnectionError")
          /\ db_conn' = db_conn
    /\ UNCHANGED <<source, dims, fact_df, started, report,
                   join_vars, loader_vars, part_vars, date_vars>>

\* lines 660-715: the count queries and the integrity queries; a query the
\* store rejects raises
QualityQueries ==
    /\ At("quality_queries")
    /\ phases' = Enter("quality_queries")
    /\ \/ /\ report' = [audited |-> TRUE, integrity |-> IntegrityReport(store)]
          /\ store' = AuditStore(store)
          /\ run_pc' = NextStep("quality_queries")
          /\ exc' = exc
       \/ /\ Raise("quality_queries", "DatabaseError")
          /\ UNCHANGED <<report, store>>
    /\ UNCHANGED <<source, dims, fact_df, db_conn, started, pre_audit,
                   join_vars, loader_but_store, part_vars, date_vars>>

\* the connection left as it is
LeaveDb(c) == c

\* lines 65-69: close() of a connection that was opened
CloseDb(c) == IF c = "open" THEN "closed" ELSE c

\* lines 745-748, 753-754: the try block ends; finally closes the connection
RunReturn ==
    /\ At("return")
    /\ run_pc' = "done"
    /\ db_conn' = CloseDb(db_conn)
    /\ UNCHANGED <<source, dims, fact_df, exc, phases, started, report, pre_audit,
                   join_vars, loader_vars, part_vars, date_vars>>

\* lines 750-754: an exception of a step, or one parallel_load let through,
\* is logged and raised again after finally closed the connection
RunExcept ==
    /\ run_pc \notin {"idle", "done", "failed"}
    /\ run_pc = "except" \/ pl_pc = "raised"
    /\ run_pc' = "failed"
    /\ exc' = IF run_pc = "except" THEN exc
              ELSE [step |-> "parallel_load", error |-> "Exception"]
    /\ db_conn' = CloseDb(db_conn)
    /\ UNCHANGED <<source, dims, fact_df, phases, started, report, pre_audit,
                   join_vars, loader_vars, part_vars, date_vars>>

\* source rows
Customer1 == <<1, 4>>
Product1 == <<1, 7, 2, 1, 5, 1, 6>>
Product2 == <<2, 7, 3, 1, 5, 2, 8>>
SaleKnown == <<1, 1, 1, 3, FirstDay>>
SaleUnknownCustomer == <<2, 9, 1, 3, FirstDay + 1>>
SaleUnknownProduct == <<3, 1, 9, 3, FirstDay>>
SaleUnknownDate == <<4, 1, 1, 3, 199>>
SaleSecondProduct == <<5, 1, 2, 4, FirstDay + 1>>

CustomerFiles == {<<>>, <<Customer1>>}
ProductFiles == {<<>>, <<Product1>>, <<Product1, Product2>>}
TransactionFiles ==
    {<<>>, <<SaleKnown>>, <<SaleUnknownCustomer>>, <<SaleUnknownProduct>>,
     <<SaleUnknownDate>>, <<SaleKnown, SaleUnknownProduct>>, <<SaleKnown, SaleKnown>>,
     <<SaleSecondProduct, SaleKnown>>}
Defects == {"unreadable", "customer_schema", "product_schema", "transaction_schema"}

\* the files of a run: sound files of any content, or one defective file
Sources ==
    [customers : CustomerFiles, products : ProductFiles,
     transactions : TransactionFiles, defect : {"none"}]
    \cup [customers : {<<Customer1>>}, products : {<<Product1>>},
          transactions : {<<SaleKnown>>}, defect : Defects]

\* lines 500-505 and the entry of run(): an empty store
PipelineInit ==
    /\ source \in Sources
    /\ run_pc = ProgramOrder[1]
    /\ dims = NoDims
    /\ fact_df = <<>>
    /\ exc = NoException
    /\ db_conn = "none"
    /\ phases = <<>>
    /\ started = <<>>
    /\ report = NoReport
    /\ max_workers = DefaultMaxWorkers
    /\ LoaderIdle
    /\ pre_audit = store
    /\ JoinIdle
    /\ PartIdle
    /\ DateIdle

PipelineNext ==
    \/ LoadCsvData
    \/ TransformCustomerData
    \/ TransformProductData
    \/ GenerateDateDimension
    \/ LoadDimension
    \/ PrepareFactData
    \/ LoadFactTable
    \/ GetConnection
    \/ QualityQueries
    \/ RunReturn
    \/ RunExcept
    \/ \E b \in BatchIds : WorkerStart(b)
    \/ \E b \in BatchIds : Connect(b)
    \/ \E b \in BatchIds : Execute(b)
    \/ \E b \in BatchIds : Commit(b)
    \/ \E b \in BatchIds : CloseAndReturn(b)
    \/ \E b \in BatchIds : Collect(b)
    \/ FinishParallelLoad

PipelineSpec == PipelineInit /\ [][PipelineNext]_vars


(***************************************************************************)
(* Claims about the run.                                                   *)
(***************************************************************************)
PhaseOrder == <<"extract", "dimension transforms", "dimension loads",
                "fact preparation", "fact load", "audit">>

Entered(phase) == phase \in Range(phases)

RunEnded == run_pc \in {"done", "failed"}

FactsLoaded ==
    /\ FactTable \in Range(started)
    /\ pl_pc = "idle"

AuditSteps == {"get_connection", "quality_queries"}

ExtractOrTransformSteps == {"load_csv_data", "transform_customer_data",
                            "transform_product_data", "generate_date_dimension"}

\* C16: when load_csv_data or a dimension transform raises, the run is
\* aborted with no parallel_load called, no batch dispatched, no result
\* recorded and the store as it was.
C16_AbortBeforeAnyLoad ==
    exc.step \in ExtractOrTransformSteps =>
        /\ run_pc \in {"except", "failed"}
        /\ started = <<>>
        /\ calls = 0
        /\ batches = <<>>
        /\ results = <<>>
        /\ store = [t \in StoreTables |-> <<>>]

C16_Witness ==
    /\ run_pc = "failed"
    /\ exc.step = "transform_customer_data"
    /\ store = [t \in StoreTables |-> <<>>]


\* C17: a run fails only by an error of load_csv_data or of a dimension
\* transform; once the transforms succeeded nothing aborts run().
C17_OnlyTransformsAbort ==
    run_pc = "failed" => exc.step \in ExtractOrTransformSteps

\* the fact rows of the transactions whose product is in the product file and
\* whose date is in the date dimension
ExpectedFacts ==
    LET matches == {m \in Range(source.transactions) \X Range(source.products)
                          \X Range(dims.date) :
                       m[1][3] = m[2][1] /\ m[1][5] = m[3][2]}
    IN  {<<m[1][1], m[1][2], m[1][3], m[2][4], m[2][6], m[3][1], m[1][4],
           m[1][4] * m[2][3], m[1][4] * m[2][3]>> : m \in matches}

\* prepare_fact_data was called
PrepareCalled == Entered("fact preparation")

\* what prepare_fact_data returns, when it returns, is the expected rows,
\* each once
FactRowsAsExpected ==
    (PrepareCalled /\ exc.step # "prepare_fact_data") =>
        /\ Range(fact_df) = ExpectedFacts
        /\ Len(fact_df) = Cardinality(ExpectedFacts)

\* C18: for a transaction file with its columns, prepare_fact_data raises no
\* error and returns a row exactly for the transactions whose Product_ID is
\* in the product dimension and whose date is in the date dimension, with the
\* product's Store_ID and Supplier_ID, the date's Date_ID,
\* Total_Amount = Quantity * Price and Revenue = Total_Amount.
C18_FactPreparation ==
    (PrepareCalled /\ source.defect = "none") =>
        /\ exc.step # "prepare_fact_data"
        /\ Range(fact_df) = ExpectedFacts

FailedResults == {i \in DOMAIN results : results[i].status = "failed"}

\* C19 (safety part): no failure of a batch leaves parallel_load; a run
\* that started the dimension loads ends only after all five were called and
\* fact preparation was called, and, unless fact preparation itself raised,
\* after the fact load was called; a failed run failed at a step other than
\* a load.
C19_LoadsNeverAbort ==
    /\ pl_pc \notin {"unwinding", "raised"}
    /\ (RunEnded /\ Entered("dimension loads")) =>
          /\ Len(started) >= 5
          /\ Range(SubSeq(started, 1, 5)) = DimensionTables
          /\ PrepareCalled
    /\ (RunEnded /\ PrepareCalled /\ exc.step # "prepare_fact_data") =>
          FactTable \in Range(started)
    /\ run_pc = "failed" =>
          exc.step \in ExtractOrTransformSteps \cup {"prepare_fact_data"} \cup AuditSteps

\* a step of the batch loads or of the collection of the current parallel_load
PoolStep ==
    \/ \E b \in BatchIds : WorkerStart(b)
    \/ \E b \in BatchIds : Connect(b)
    \/ \E b \in BatchIds : Execute(b)
    \/ \E b \in BatchIds : Commit(b)
    \/ \E b \in BatchIds : CloseAndReturn(b)
    \/ \E b \in BatchIds : Collect(b)
    \/ FinishParallelLoad

\* C19: batch failures never block phase progress: C19_LoadsNeverAbort holds,
\* and whatever batches have failed, a parallel_load that has not returned
\* has a step to take and, once it returned, a run that has not ended is at
\* its next statement.
C19_BatchFailuresNeverBlock ==
    /\ C19_LoadsNeverAbort
    /\ pl_pc = "collecting" => ENABLED PoolStep
    /\ (pl_pc = "idle" /\ ~RunEnded) => run_pc \in Range(ProgramOrder) \cup {"except"}

C19_Witness ==
    /\ run_pc = "done"
    /\ \E i \in FailedResults : results[i].table \in DimensionTables
    /\ FactTable \in Range(started)


\* the fact rows of a store whose column col names no row of the dimension
Orphans(st, col, dimension) ==
    {i \in DOMAIN st[FactTable] :
        \A j \in DOMAIN st[dimension] : st[dimension][j][1] # st[FactTable][i][col]}

\* C20: the count an audit reports for the customer, the product and the
\* date check is the number of Sales_Fact rows whose Customer_ID, Product_ID,
\* Date_ID is the key of no row of Customer_Dim, Product_Dim, Date_Dim; a
\* check passes exactly when its count is 0; the audit leaves every table as
\* it found it.
C20_OrphanCounts ==
    report.audited =>
        /\ report.integrity.customer = Cardinality(Orphans(pre_audit, 2, "Customer_Dim"))
        /\ report.integrity.product = Cardinality(Orphans(pre_audit, 3, "Product_Dim"))
        /\ report.integrity.date = Cardinality(Orphans(pre_audit, 6, "Date_Dim"))
        /\ (report.integrity.customer_status = "PASS") <=> (report.integrity.customer = 0)
        /\ (report.integrity.product_status = "PASS") <=> (report.integrity.product = 0)
        /\ (report.integrity.date_status = "PASS") <=> (report.integrity.date = 0)
        /\ \A t \in StoreTables : store[t] = pre_audit[t]

\* one fact row, its Customer_ID absent from Customer_Dim: 1, 0 and 0
C20_Witness ==
    /\ report.audited
    /\ Len(store[FactTable]) = 1
    /\ \A j \in DOMAIN store["Customer_Dim"] :
          store["Customer_Dim"][j][1] # store[FactTable][1][2]
    /\ report.integrity.customer = 1
    /\ report.integrity.product = 0
    /\ report.integrity.date = 0
    /\ report.integrity.customer_status = "FAIL"
    /\ report.integrity.product_status = "PASS"


(***************************************************************************)
(* generate_date_dimension applied to bounded ranges of days.              *)
(***************************************************************************)
\* the longest range of days generated
MaxSpan == 3

\* the number of the day year-month-day
RECURSIVE DayNumber(_, _, _)
DayNumber(year, month, day) ==
    IF month > 1 THEN DaysInMonth(year, month - 1) + DayNumber(year, month - 1, day)
    ELSE IF year > 2014 THEN DaysInYear(year - 1) + DayNumber(year - 1, 1, day)
    ELSE day

\* start dates: every day of 2023 and of the leap year 2024
DateStarts == DayNumber(2023, 1, 1)..DayNumber(2024, 12, 31)

DateInit ==
    /\ d_start \in DateStarts
    /\ d_end \in (d_start - 1)..(d_start + MaxSpan - 1)
    /\ date_df = <<>>
    /\ d_called = FALSE
    /\ max_workers = DefaultMaxWorkers
    /\ LoaderIdle
    /\ JoinIdle
    /\ PartIdle
    /\ PipeIdle

GenerateDateCall ==
    /\ ~d_called
    /\ d_called' = TRUE
    /\ date_df' = generate_date_dimension(d_start, d_end)
    /\ UNCHANGED <<d_start, d_end, join_vars, loader_vars, part_vars, pipe_vars>>

DateNext == GenerateDateCall

DateSpec == DateInit /\ [][DateNext]_vars

\* Zeller's congruence: 0 for a Saturday, 1 for a Sunday, 2 for a Monday, ...
ZellerDay(year, month, day) ==
    LET m == IF month < 3 THEN month + 12 ELSE month
        y == IF month < 3 THEN year - 1 ELSE year
    IN  (day + (13 * (m + 1)) \div 5 + (y % 100) + (y % 100) \div 4
             + (y \div 100) \div 4 + 5 * (y \div 100)) % 7

\* C21: generate_date_dimension(start, end) gives one row per calendar day
\* from start to end inclusive, in date order, with Date_ID 1, 2, ..., N;
\* the Season of a row is Winter for months 12, 1, 2, Spring for 3-5, Summer
\* for 6-8 and Fall for 9-11, and its Weekday_Weekend is Weekend exactly for
\* a Saturday or a Sunday.
C21_DateDimension ==
    d_called =>
        /\ Len(date_df) = (IF d_end >= d_start THEN d_end - d_start + 1 ELSE 0)
        /\ \A i \in DOMAIN date_df :
              LET r == date_df[i]
              IN  /\ r[1] = i
                  /\ r[2] = d_start + i - 1
                  /\ r[4] \in 1..12
                  /\ r[3] \in 1..DaysInMonth(r[7], r[4])
                  /\ DayNumber(r[7], r[4], r[3]) = r[2]
                  /\ (r[9] = "Winter") <=> (r[4] \in {12, 1, 2})
                  /\ (r[9] = "Spring") <=> (r[4] \in {3, 4, 5})
                  /\ (r[9] = "Summer") <=> (r[4] \in {6, 7, 8})
                  /\ (r[9] = "Fall") <=> (r[4] \in {9, 10, 11})
                  /\ r[8] \in {"Weekend", "Weekday"}
                  /\ (r[8] = "Weekend") <=> (ZellerDay(r[7], r[4], r[3]) \in {0, 1})

\* 2024-02-28..2024-03-01: three rows, Winter, Winter, Spring, all weekdays,
\* the second being February 29
C21_Witness ==
    /\ d_called
    /\ d_start = DayNumber(2024, 2, 28)
    /\ d_end = DayNumber(2024, 3, 1)
    /\ Len(date_df) = 3
    /\ <<date_df[1][9], date_df[2][9], date_df[3][9]>> = <<"Winter", "Winter", "Spring">>
    /\ \A i \in 1..3 : date_df[i][8] = "Weekday"
    /\ <<date_df[2][7], date_df[2][4], date_df[2][3]>> = <<2024, 2, 29>>
    /\ <<date_df[3][7], date_df[3][4], date_df[3][3]>> = <<2024, 3, 1>>


(***************************************************************************)
(* Claims about failing connections, in the run.                           *)
(***************************************************************************)
\* the results of the batches whose connect failed
ConnectFailures == {i \in DOMAIN results : results[i].error = "connect"}

\* C22 as claimed: a failure to connect is fatal wherever it happens: after
\* a batch load failed to connect no later parallel_load is called and the
\* run does not complete, and a failure of the auditor's connection aborts
\* the run.
C22_ConnectionErrorFatal ==
    /\ \A i \in ConnectFailures :
          /\ run_pc # "done"
          /\ started[Len(started)] = results[i].table
    /\ exc.error = "ConnectionError" => run_pc \in {"except", "failed"}

\* C22: a failure of the auditor to obtain its connection aborts the audit
\* and the run, the error going to the caller of run(); an audit completes
\* only with its connection obtained.  A failure to connect in a batch load
\* is not fatal: it becomes the failed result of its batch and never leaves
\* parallel_load.
C22_ConnectFatalForAuditorOnly ==
    /\ exc.error = "ConnectionError" =>
          /\ exc.step = "get_connection"
          /\ run_pc \in {"except", "failed"}
          /\ ~report.audited
          /\ store = pre_audit
    /\ report.audited => db_conn # "none"
    /\ run_pc = "done" => report.audited
    /\ \A i \in ConnectFailures :
          /\ results[i].status = "failed"
          /\ results[i].rows_loaded = 0
    /\ pl_pc \notin {"unwinding", "raised"}
    /\ exc.step # "parallel_load"

\* a run in which a batch load failed to connect, all later loads were
\* called, and the auditor's failure to connect then ended the run
C22_Witness ==
    /\ run_pc = "failed"
    /\ exc = [step |-> "get_connection", error |-> "ConnectionError"]
    /\ \E i \in ConnectFailures : results[i].table = "Store_Dim"
    /\ started[Len(started)] = FactTable


\* no transaction names a product of the product file
NoProductMatch ==
    \A t \in Range(source.transactions) : \A q \in Range(source.products) : q[1] # t[3]

\* C23: when the transaction/product hash join matches nothing, also for an
\* empty transaction file, prepare_fact_data raises nothing and returns an
\* empty dataset, and the run goes on to the fact load, of no batch, and to
\* the audit.
C23_EmptyJoinGivesNoFacts ==
    (PrepareCalled /\ source.defect = "none" /\ NoProductMatch) =>
        /\ exc.step # "prepare_fact_data"
        /\ fact_df = <<>>
        /\ RunEnded => (FactTable \in Range(started) /\ Entered("audit"))


(***************************************************************************)
(* Claims about the results and the commits of the loader.                 *)
(***************************************************************************)
\* every collected batch of the current invocation has one result among
\* those appended since the invocation started, and no other batch has one
OneResultPerCollected ==
    /\ Len(results) = pl_base + Cardinality(collected)
    /\ \A b \in BatchIds :
          /\ Cardinality(ResultsOf(b)) = (IF b \in collected THEN 1 ELSE 0)
          /\ \A i \in ResultsOf(b) : OwnResults[i] = fut[b].result
    /\ pl_pc = "idle" => collected = BatchIds

\* a step keeps every result there is, in place, and appends at most one; a
\* new invocation starts from all the results of the invocations before it
ResultsOnlyGrow ==
    /\ Len(results') \in {Len(results), Len(results) + 1}
    /\ SubSeq(results', 1, Len(results)) = results
    /\ calls' # calls => (results' = results /\ pl_base' = Len(results))

\* C24: across the parallel_load invocations of one loader the results only
\* grow, a result once appended is never changed or removed, and when k
\* invocations have returned the results hold one result per batch of each
\* of them, whatever the order in which the workers completed.
C24_ResultsAppendOnly ==
    /\ []OneResultPerCollected
    /\ [][ResultsOnlyGrow]_vars

\* a second invocation has returned and appended to the results of the first
C24_Witness ==
    /\ calls = 2
    /\ pl_pc = "idle"
    /\ pl_base >= 1
    /\ Len(results) > pl_base
    /\ Len(results) = pl_base + Len(batches)


\* what the commit of a batch holding row adds to the occurrences of row in
\* a table that held rows before: the row itself, unless the statement finds
\* its key there
AddedByCommit(sql, rows, row) ==
    IF sql = "insert" \/ KeyIndex(rows, row[1]) = 0 THEN 1 ELSE 0

C26_CleanupOnTermination ==
    /\ RunEnded =>
          /\ db_conn \in {"none", "closed"}
          /\ db_conn = "closed" <=> (Entered("audit") /\ exc.step # "get_connection")
          /\ run_pc = "failed" <=> exc # NoException
    /\ db_conn = "open" => run_pc \in {"quality_queries", "return", "except"}

\* the audit had its connection open when a query failed; the run ended
\* with the connection closed and the error raised
C26_Witness ==
    /\ run_pc = "failed"
    /\ exc = [step |-> "quality_queries", error |-> "DatabaseError"]
    /\ db_conn = "closed"

====
